---- MODULE Spec2Model ----
(***************************************************************************)
(* Model of core/data.py of GFM: the matting sample synthesizer.           *)
(*                                                                         *)
(*   - the morphological masks gen_trimap_with_dilate / gen_dilate /       *)
(*     gen_erosion, with the elliptical structuring element and the        *)
(*     dilate / erode of OpenCV computed pixel by pixel;                    *)
(*   - MattingDataset.__getitem__ and MattingTransform.__call__ as a state  *)
(*     machine over the shapes of the buffers and the pixels of the mask.   *)
(*                                                                         *)
(* Images are records [h, w, px] with px a function on the pixel           *)
(* positions <<row, col>>, rows 0..h-1 and columns 0..w-1 as in numpy.      *)
(***************************************************************************)
EXTENDS Integers, Sequences, FiniteSets, TLC

VARIABLES
  pc,             \* the position of the control
  err,            \* the exception that ended the call, or NoError
  cfg,            \* self.BG_CHOICE, self.FG_CF, self.RSSN_DENOISE
  ori, fg, bg,    \* the shapes [h, w] of the colour buffers of __getitem__
  mask,           \* the mask buffer, with its pixels
  trimap, dilation, erosion,   \* the masks generated online
  kernel_size,
  crop_size, biased, target, cropx, cropy, flip_flag,   \* locals of __call__
  argv_transform, \* the buffers __call__ returns
  tensors,        \* the shapes of the tensors __getitem__ returns
  comp            \* a call of generate_composite_rssn / _coco on pixel rows

shapeVars == <<ori, fg, bg>>
maskVars == <<trimap, dilation, erosion, kernel_size>>
cropVars == <<crop_size, biased, target, cropx, cropy, flip_flag>>
vars == <<pc, err, cfg, ori, fg, bg, mask, trimap, dilation, erosion,
          kernel_size, crop_size, biased, target, cropx, cropy, flip_flag,
          argv_transform, tensors, comp>>

None == [none |-> TRUE]
NoError == "none"

(***************************************************************************)
(* Bounds of the model.                                                    *)
(***************************************************************************)
MaxH == 3
MaxW == 3
MaxKernel == 3

\* the alpha values told apart: 0, 255 and the values strictly between
AlphaValues == {0, 128, 255}

Pos(h, w) == (0 .. h - 1) \X (0 .. w - 1)

Images(H, W, V) ==
  UNION { { [h |-> h, w |-> w, px |-> p] : p \in [Pos(h, w) -> V] } :
          <<h, w>> \in (1 .. H) \X (1 .. W) }

Max(a, b) == IF a >= b THEN a ELSE b
Min(a, b) == IF a <= b THEN a ELSE b
Abs(a) == IF a >= 0 THEN a ELSE -a

(***************************************************************************)
(* cv2.getStructuringElement(cv2.MORPH_ELLIPSE, (k, k)).                   *)
(* r = c = k / 2; row i holds ones in the columns j1 <= j < j2 with        *)
(* dx = round(c * sqrt((r*r - dy*dy) / (r*r))), j1 = max(c - dx, 0),       *)
(* j2 = min(c + dx + 1, k); a 1 x 1 element is the single one.             *)
(***************************************************************************)
RoundSqrt(n) ==
  CHOOSE d \in 0 .. n :
    /\ 4 * n < (2 * d + 1) * (2 * d + 1)
    /\ d > 0 => (2 * d - 1) * (2 * d - 1) <= 4 * n

EllipseRowHalfWidth(k, i) ==
  LET r == k \div 2
      dy == i - r
  IN RoundSqrt(r * r - dy * dy)

getStructuringElement(k) ==
  LET c == k \div 2
  IN [ksize |-> k,
      cells |-> IF k = 1 THEN { <<0, 0>> }
                ELSE { <<i, j>> \in (0 .. k - 1) \X (0 .. k - 1) :
                         /\ Abs(i - c) <= c
                         /\ Max(c - EllipseRowHalfWidth(k, i), 0) <= j
                         /\ j < Min(c + EllipseRowHalfWidth(k, i) + 1, k) }]

\* the source position under cell e of the element anchored, at its centre
\* (the default anchor), on the pixel p
Under(kernel, p, e) ==
  <<p[1] + e[1] - kernel.ksize \div 2, p[2] + e[2] - kernel.ksize \div 2>>

InImage(h, w, q) == q[1] >= 0 /\ q[1] < h /\ q[2] >= 0 /\ q[2] < w

\* cv2.dilate(src, kernel, iterations=1) of a 0/1 image: the max under the
\* element; the positions outside the image never win it (default border)
cv2_dilate(img, kernel) ==
  [h |-> img.h, w |-> img.w, px |-> [p \in Pos(img.h, img.w) |->
     IF \E e \in kernel.cells :
          /\ InImage(img.h, img.w, Under(kernel, p, e))
          /\ img.px[Under(kernel, p, e)] = 1
     THEN 1 ELSE 0]]

\* cv2.erode(src, kernel, iterations=1) of a 0/1 image: the min under the
\* element; the positions outside the image never win it (default border)
cv2_erode(img, kernel) ==
  [h |-> img.h, w |-> img.w, px |-> [p \in Pos(img.h, img.w) |->
     IF \A e \in kernel.cells :
          InImage(img.h, img.w, Under(kernel, p, e))
            => img.px[Under(kernel, p, e)] = 1
     THEN 1 ELSE 0]]

\* np.not_equal(alpha, 0).astype(np.float32)
NotEqualZero(alpha) ==
  [alpha EXCEPT !.px = [p \in Pos(alpha.h, alpha.w) |->
     IF alpha.px[p] # 0 THEN 1 ELSE 0]]

\* a foreground of every pixel that is not 0, which gen_trimap_with_dilate
\* must not erode (C1)
Equal255_NotZero(alpha) ==
  [alpha EXCEPT !.px = [p \in Pos(alpha.h, alpha.w) |->
     IF alpha.px[p] # 0 THEN 1 ELSE 0]]

\* np.equal(alpha, 255).astype(np.float32)
Equal255(alpha) ==
  [alpha EXCEPT !.px = [p \in Pos(alpha.h, alpha.w) |->
     IF alpha.px[p] = 255 THEN 1 ELSE 0]]

\* .astype(np.uint8) of an integral value
Uint8(x) == x % 256

gen_trimap_with_dilate(alpha, k) ==
  LET kernel == getStructuringElement(k)
      dilate == cv2_dilate(NotEqualZero(alpha), kernel)
      erode == cv2_erode(Equal255(alpha), kernel)
  IN [alpha EXCEPT !.px = [p \in Pos(alpha.h, alpha.w) |->
        Uint8(erode.px[p] * 255 + (dilate.px[p] - erode.px[p]) * 128)]]

\* a dilation of the pixels valued 255 only, which disagrees with the
\* trimap (C10)
gen_dilate_OfForeground(alpha, k) ==
  LET kernel == getStructuringElement(k)
      dilate == cv2_dilate(Equal255(alpha), kernel)
  IN [alpha EXCEPT !.px = [p \in Pos(alpha.h, alpha.w) |->
        Uint8(dilate.px[p] * 255)]]

gen_dilate(alpha, k) ==
  LET kernel == getStructuringElement(k)
      dilate == cv2_dilate(NotEqualZero(alpha), kernel)
  IN [alpha EXCEPT !.px = [p \in Pos(alpha.h, alpha.w) |->
        Uint8(dilate.px[p] * 255)]]

gen_erosion(alpha, k) ==
  LET kernel == getStructuringElement(k)
      erode == cv2_erode(Equal255(alpha), kernel)
  IN [alpha EXCEPT !.px = [p \in Pos(alpha.h, alpha.w) |->
        Uint8(erode.px[p] * 255)]]

(***************************************************************************)
(* The three mask generators applied to every bounded alpha buffer.        *)
(***************************************************************************)
InitMorph ==
  /\ pc = "morph"
  /\ mask \in Images(MaxH, MaxW, AlphaValues)
  /\ kernel_size \in 1 .. MaxKernel
  /\ trimap = None
  /\ dilation = None
  /\ erosion = None
  /\ err = NoError
  /\ cfg = None
  /\ ori = None /\ fg = None /\ bg = None
  /\ crop_size = None /\ biased = None /\ target = None
  /\ cropx = None /\ cropy = None /\ flip_flag = None
  /\ argv_transform = None
  /\ tensors = None
  /\ comp = None

\* lines 191-193: the three masks of one mask buffer and one kernel size
CallGenMasks ==
  /\ pc = "morph"
  /\ pc' = "morphed"
  /\ trimap' = gen_trimap_with_dilate(mask, kernel_size)
  /\ dilation' = gen_dilate(mask, kernel_size)
  /\ erosion' = gen_erosion(mask, kernel_size)
  /\ UNCHANGED <<mask, kernel_size, err, cfg, shapeVars, cropVars,
                 argv_transform, tensors, comp>>

NextMorph == CallGenMasks

SpecMorph == InitMorph /\ [][NextMorph]_vars

(***************************************************************************)
(* MattingDataset.__getitem__ and MattingTransform.__call__.               *)
(*                                                                         *)
(* The colour buffers (ori, fg, bg) are followed by their shapes, the mask *)
(* and the masks derived from it by their pixels.  The lengths are scaled  *)
(* to the bounded images: CROP_SIZE and RESIZE_SIZE come from config.py,   *)
(* the fallback crop size and the range of the kernel size from data.py.   *)
(***************************************************************************)
CROP_SIZE == <<1, 3>>
RESIZE_SIZE == 2
\* the literal 320 of line 125, in the scale of the bounded images
DEFAULT_CROP_SIZE == 2
\* random.randint(25, 35) of line 190, in the scale of the bounded images
KERNEL_LO == 2
KERNEL_HI == 3

\* the masks drawn pixel by pixel have at most MaxFree pixels
MaxFree == 6

Shapes == { [h |-> s[1], w |-> s[2]] : s \in (1 .. MaxH) \X (1 .. MaxW) }
ShapeOf(img) == [h |-> img.h, w |-> img.w]

IsConstant(img) ==
  \A p, q \in Pos(img.h, img.w) : img.px[p] = img.px[q]

ConstantMasks ==
  { [h |-> s.h, w |-> s.w, px |-> [q \in Pos(s.h, s.w) |-> v]] :
    s \in Shapes, v \in AlphaValues }

FreeMasks ==
  UNION { { [h |-> s.h, w |-> s.w, px |-> p] :
            p \in [Pos(s.h, s.w) -> AlphaValues] } :
          s \in { t \in Shapes : t.h * t.w <= MaxFree } }

\* The samples of the dataset.  The mask files: the constant masks of every
\* shape under every mode, and every content of at most MaxFree pixels under
\* the mode that loads nothing but the image and the mask.  The other image
\* files of a sample have the shape of the mask, or any shape when the mask
\* is constant; the layer files of a sample (fg and bg, fg_denoise and
\* bg_denoise) come in pairs of one shape.
MaskFiles(c) ==
  IF c.BG_CHOICE = "original" /\ ~c.FG_CF
  THEN ConstantMasks \cup FreeMasks
  ELSE ConstantMasks

FileShapes(m) == IF IsConstant(m) THEN Shapes ELSE { ShapeOf(m) }

Modes ==
  { c \in [BG_CHOICE : {"original", "hd", "coco"}, FG_CF : BOOLEAN,
           RSSN_DENOISE : BOOLEAN] :
      c.RSSN_DENOISE => c.BG_CHOICE = "hd" }

\* numpy broadcasting of two shapes, axis by axis
Compatible(a, b) ==
  /\ a.h = b.h \/ a.h = 1 \/ b.h = 1
  /\ a.w = b.w \/ a.w = 1 \/ b.w = 1

Broadcast(a, b) == [h |-> Max(a.h, b.h), w |-> Max(a.w, b.w)]

\* a value of shape v assigned to a slice of shape t (alpha[:, :, 0] = ...)
AssignableTo(v, t) ==
  /\ v.h = t.h \/ v.h = 1
  /\ v.w = t.w \/ v.w = 1

\* resize_img(ori, img): skimage resize(img, ori.shape), the shape of ori
resize_img(o, img) == o

\* process_fgbg: the file when a path is given, else ori * mask_3 (or its
\* complement), which numpy broadcasts; None when the shapes do not broadcast
process_fgbg(o, m, file) ==
  IF file # None THEN file
  ELSE IF Compatible(o, ShapeOf(m)) THEN Broadcast(o, ShapeOf(m))
  ELSE None

Raise(e) ==
  /\ pc' = "raised"
  /\ err' = e

Init ==
  /\ pc = "load"
  /\ err = NoError
  /\ cfg \in Modes
  /\ ori = None /\ fg = None /\ bg = None
  /\ mask = None
  /\ trimap = None /\ dilation = None /\ erosion = None
  /\ kernel_size = None
  /\ crop_size = None /\ biased = None /\ target = None
  /\ cropx = None /\ cropy = None /\ flip_flag = None
  /\ argv_transform = None
  /\ tensors = None
  /\ comp = None

\* lines 171-181: the files of the sample are opened, fg and bg prepared
LoadSample ==
  /\ pc = "load"
  /\ \E m \in MaskFiles(cfg) :
       \E o \in FileShapes(m), lf \in FileShapes(m) :
         LET fg_path == IF cfg.FG_CF THEN lf ELSE None
             bg_path == IF cfg.FG_CF \/ cfg.BG_CHOICE # "original"
                        THEN lf ELSE None
             f == process_fgbg(o, m, fg_path)
             b == process_fgbg(o, m, bg_path)
         IN /\ ori' = o
            /\ mask' = m
            /\ IF f = None \/ b = None
               THEN /\ Raise("ValueError:broadcast")
                    /\ UNCHANGED <<fg, bg>>
               ELSE /\ fg' = f
                    /\ bg' = b
                    /\ pc' = "composite"
                    /\ err' = err
  /\ UNCHANGED <<cfg, maskVars, cropVars, argv_transform, tensors, comp>>

\* lines 183-186 with generate_composite_rssn (lines 61-80)
CompositeRssn ==
  /\ pc = "composite"
  /\ cfg.BG_CHOICE = "hd"
  /\ \E ld \in FileShapes(mask),
        use_denoise \in BOOLEAN, blur \in BOOLEAN, noise \in BOOLEAN :
       LET fg_denoise == IF cfg.RSSN_DENOISE
                         THEN process_fgbg(ori, mask, ld) ELSE None
           bg_denoise == IF cfg.RSSN_DENOISE
                         THEN process_fgbg(ori, mask, ld) ELSE None
           alpha == fg
           bg1 == resize_img(fg, bg)
           swap == fg_denoise # None /\ use_denoise
           fg2 == IF swap THEN fg_denoise ELSE fg
           bg2 == IF swap THEN resize_img(fg_denoise, bg_denoise) ELSE bg1
           composite == Broadcast(alpha, fg2)
       IN IF ~AssignableTo(ShapeOf(mask), alpha) \/ ~Compatible(alpha, fg2)
          THEN /\ Raise("ValueError:broadcast")
               /\ UNCHANGED <<ori, fg, bg>>
          ELSE /\ ori' = composite
               /\ fg' = IF noise THEN Broadcast(fg2, composite) ELSE fg2
               /\ bg' = IF noise THEN Broadcast(bg2, composite) ELSE bg2
               /\ pc' = "genmasks"
               /\ err' = err
  /\ UNCHANGED <<cfg, mask, maskVars, cropVars, argv_transform, tensors, comp>>

\* lines 187-188 with generate_composite_coco (lines 82-89)
CompositeCoco ==
  /\ pc = "composite"
  /\ cfg.BG_CHOICE = "coco"
  /\ LET alpha == fg
         bg1 == resize_img(fg, bg)
         composite == Broadcast(alpha, fg)
     IN IF ~AssignableTo(ShapeOf(mask), alpha)
        THEN /\ Raise("ValueError:broadcast")
             /\ UNCHANGED <<ori, fg, bg>>
        ELSE /\ ori' = composite
             /\ fg' = fg
             /\ bg' = bg1
             /\ pc' = "genmasks"
             /\ err' = err
  /\ UNCHANGED <<cfg, mask, maskVars, cropVars, argv_transform, tensors, comp>>

\* lines 183, 187: no composite for the original background
KeepOriginal ==
  /\ pc = "composite"
  /\ cfg.BG_CHOICE = "original"
  /\ pc' = "genmasks"
  /\ UNCHANGED <<err, cfg, shapeVars, mask, maskVars, cropVars,
                 argv_transform, tensors, comp>>

\* lines 190-193
GenMasks ==
  /\ pc = "genmasks"
  /\ \E k \in KERNEL_LO .. KERNEL_HI :
       /\ kernel_size' = k
       /\ trimap' = gen_trimap_with_dilate(mask, k)
       /\ dilation' = gen_dilate(mask, k)
       /\ erosion' = gen_erosion(mask, k)
  /\ pc' = "call"
  /\ UNCHANGED <<err, cfg, shapeVars, mask, cropVars, argv_transform, tensors, comp>>

(***************************************************************************)
(* MattingTransform.__call__ on argv = (ori, mask, fg, bg, trimap,         *)
(* dilation, erosion).  Each buffer is followed as the image of its own    *)
(* pixel positions, so that an output pixel tells the source coordinates   *)
(* it derives from.                                                        *)
(***************************************************************************)
CoordImage(s) == [h |-> s.h, w |-> s.w, px |-> [p \in Pos(s.h, s.w) |-> p]]

\* the stop of the numpy slice [:stop] of an axis of length n
SliceStop(stop, n) == IF stop < 0 THEN Max(stop + n, 0) ELSE Min(stop, n)

\* item[y:y+size, x:x+size] for y, x >= 0: numpy cuts the slice at the edge
Crop(img, y, x, size) ==
  LET nh == Max(Min(y + size, img.h) - y, 0)
      nw == Max(Min(x + size, img.w) - x, 0)
  IN [h |-> nh, w |-> nw,
      px |-> [p \in Pos(nh, nw) |-> img.px[<<p[1] + y, p[2] + x>>]]]

\* cv2.flip(item, 1): mirrored around the vertical axis
cv2_flip(img) ==
  [h |-> img.h, w |-> img.w,
   px |-> [p \in Pos(img.h, img.w) |-> img.px[<<p[1], img.w - 1 - p[2]>>]]]

\* INTER_LINEAR along one axis: the output index d of R reads the source
\* indices i0 and i0 + 1 of n with the weights 2R - f and f (over 2R), the
\* sample point being (d + 0.5) * n / R - 0.5, clamped to the axis
Tap(d, n, R) ==
  LET num == (2 * d + 1) * n - R
      i == num \div (2 * R)
  IN IF i < 0 THEN [i0 |-> 0, f |-> 0]
     ELSE IF i >= n - 1 THEN [i0 |-> n - 1, f |-> 0]
     ELSE [i0 |-> i, f |-> num - i * 2 * R]

AxisWeight(t, i, R) ==
  (IF i = t.i0 THEN 2 * R - t.f ELSE 0) + (IF i = t.i0 + 1 THEN t.f ELSE 0)

\* cv2.resize(item, (R, R), interpolation=cv2.INTER_LINEAR) of a non-empty
\* image: every output pixel is the set of <<source pixel, weight>> it blends
cv2_resize(img, R) ==
  [h |-> R, w |-> R,
   px |-> [p \in Pos(R, R) |->
     LET ty == Tap(p[1], img.h, R)
         tx == Tap(p[2], img.w, R)
     IN { <<img.px[q], AxisWeight(ty, q[1], R) * AxisWeight(tx, q[2], R)>> :
          q \in { r \in Pos(img.h, img.w) :
                  AxisWeight(ty, r[1], R) * AxisWeight(tx, r[2], R) > 0 } }]]

IsEmpty(img) == img.h = 0 \/ img.w = 0

\* a transform without the final resize, whose outputs keep the crop size (C3)
TransformItem_NoResize(item, y, x, size, flip) ==
  LET cropped == Crop(item, y, x, size)
  IN IF flip THEN cv2_flip(cropped) ELSE cropped

\* the body of the loop of lines 140-145 for one item
TransformItem(item, y, x, size, flip) ==
  LET cropped == Crop(item, y, x, size)
      flipped == IF flip THEN cv2_flip(cropped) ELSE cropped
  IN cv2_resize(flipped, RESIZE_SIZE)

\* argv of line 196, each buffer as the image of its pixel positions
Argv ==
  <<CoordImage(ori), CoordImage(mask), CoordImage(fg), CoordImage(bg),
    CoordImage(trimap), CoordImage(dilation), CoordImage(erosion)>>

\* item.ndim of the seven buffers
ArgvNdim == <<3, 2, 3, 3, 2, 2, 2>>

\* trimap_crop of line 129: argv[1], the mask, up to h - crop_size rows and
\* w - crop_size columns, h and w the height and width of argv[0]
TrimapCrop ==
  Pos(SliceStop(ori.h - crop_size, mask.h), SliceStop(ori.w - crop_size, mask.w))

\* lines 122-126
ChooseCrop ==
  /\ pc = "call"
  /\ \E rand_ind \in 1 .. Len(CROP_SIZE) :
       crop_size' = IF CROP_SIZE[rand_ind] < Min(ori.h, ori.w)
                    THEN CROP_SIZE[rand_ind] ELSE DEFAULT_CROP_SIZE
  /\ pc' = "search"
  /\ UNCHANGED <<err, cfg, shapeVars, mask, maskVars, biased, target, cropx,
                 cropy, flip_flag, argv_transform, tensors, comp>>

\* lines 128-132
FindTarget ==
  /\ pc = "search"
  /\ \E b \in BOOLEAN :
       LET where128 == { p \in TrimapCrop : mask.px[p] = 128 }
           whereValid == { p \in TrimapCrop : mask.px[p] > -100 }
           found == IF b THEN where128 ELSE whereValid
       IN /\ biased' = b
          /\ target' = IF found = {} THEN whereValid ELSE found
  /\ pc' = "pick"
  /\ UNCHANGED <<err, cfg, shapeVars, mask, maskVars, crop_size, cropx, cropy,
                 flip_flag, argv_transform, tensors, comp>>

\* lines 134-135: np.random.randint(0) raises ValueError
PickOrigin ==
  /\ pc = "pick"
  /\ IF target = {}
     THEN /\ Raise("ValueError:randint")
          /\ UNCHANGED <<cropx, cropy>>
     ELSE /\ \E p \in target :
               /\ cropy' = p[1]
               /\ cropx' = p[2]
          /\ pc' = "crop"
          /\ err' = err
  /\ UNCHANGED <<cfg, shapeVars, mask, maskVars, crop_size, biased, target,
                 flip_flag, argv_transform, tensors, comp>>

\* lines 137-147: cv2.resize (and cv2.flip) raise cv2.error on an empty item
CropFlipResize ==
  /\ pc = "crop"
  /\ \E f \in BOOLEAN :
       /\ flip_flag' = f
       /\ IF \E i \in 1 .. 7 : IsEmpty(Crop(Argv[i], cropy, cropx, crop_size))
          THEN /\ Raise("cv2.error:empty")
               /\ UNCHANGED argv_transform
          ELSE /\ argv_transform' =
                    [i \in 1 .. 7 |->
                       TransformItem(Argv[i], cropy, cropx, crop_size, f)]
               /\ pc' = "tensor"
               /\ err' = err
  /\ UNCHANGED <<cfg, shapeVars, mask, maskVars, crop_size, biased, target,
                 cropx, cropy, tensors, comp>>

\* lines 198-207: channel-first tensors
ToTensor ==
  /\ pc = "tensor"
  /\ tensors' = [i \in 1 .. 7 |->
                   [c |-> IF ArgvNdim[i] < 3 THEN 1 ELSE 3,
                    h |-> argv_transform[i].h,
                    w |-> argv_transform[i].w]]
  /\ pc' = "done"
  /\ UNCHANGED <<err, cfg, shapeVars, mask, maskVars, cropVars, argv_transform, comp>>

Next ==
  \/ LoadSample
  \/ CompositeRssn
  \/ CompositeCoco
  \/ KeepOriginal
  \/ GenMasks
  \/ ChooseCrop
  \/ FindTarget
  \/ PickOrigin
  \/ CropFlipResize
  \/ ToTensor

Spec == Init /\ [][Next]_vars

(***************************************************************************)
(* generate_composite_rssn, generate_composite_coco and add_guassian_noise *)
(* on the pixels: one channel of one row of CompW pixels.  A float is the  *)
(* integer number of 1/Unit it holds, Unit a multiple of every divisor of  *)
(* the arithmetic (the blur kernels, the weights of the interpolation).    *)
(***************************************************************************)
CompW == 2
\* the noise drawn by np.random.normal is bounded by MaxNoise, in halves
MaxNoise == 2

PixelValues == {0, 1, 255}
BlurKernels == {20, 30, 40, 50, 60}

RECURSIVE Gcd(_, _)
Gcd(a, b) == IF b = 0 THEN a ELSE Gcd(b, a % b)
Lcm(a, b) == (a * b) \div Gcd(a, b)
RECURSIVE LcmOf(_)
LcmOf(S) == IF S = {} THEN 1
            ELSE LET x == CHOOSE y \in S : TRUE IN Lcm(x, LcmOf(S \ {x}))

Unit == LcmOf(BlurKernels \cup { 2 * n : n \in 1 .. CompW })

NoiseValues == { (g * Unit) \div 2 : g \in (-MaxNoise .. MaxNoise) \ {0} }

Rows(V, n) == [1 .. n -> V]

\* resize_img(fg, bg) on a row: skimage resize of the uint8 row to n pixels
\* (values in [0, 1]) times 255.0: linear interpolation at the pixel centres
resize_row(file, n) ==
  [d \in 1 .. n |->
     LET t == Tap(d - 1, Len(file), n)
         a == file[t.i0 + 1]
         b == file[Min(t.i0 + 2, Len(file))]
     IN (((2 * n - t.f) * a + t.f * b) * Unit) \div (2 * n)]

\* cv2.borderInterpolate(p, len, BORDER_REFLECT_101)
RECURSIVE Reflect101(_, _)
Reflect101(p, len) ==
  IF len = 1 THEN 0
  ELSE IF p < 0 THEN Reflect101(-p, len)
  ELSE IF p >= len THEN Reflect101(2 * len - 2 - p, len)
  ELSE p

RECURSIVE WindowSum(_, _, _, _)
WindowSum(row, x, k, j) ==
  IF j = k THEN 0
  ELSE row[Reflect101(x - 1 + j - k \div 2, Len(row)) + 1]
         + WindowSum(row, x, k, j + 1)

\* cv2.blur(bg, (k, k)): the mean of the k x k window anchored at its centre,
\* the border reflected (the rows above and below reflect the one row)
cv2_blur(row, k) == [x \in 1 .. Len(row) |-> WindowSum(row, x, k, 0) \div k]

\* (alpha * fg + (1 - alpha) * bg).astype(np.uint8) of one pixel, alpha =
\* m / 255: the values the truncation can give.  With m = 255 the sum is fg
\* and with m = 0 it is bg, exactly; else the float sum carries a rounding
\* error, which decides the truncation when the exact sum is an integer
Blend(m, f, b) ==
  LET num == m * f + (255 - m) * b
      q == num \div (255 * Unit)
  IN IF m = 255 THEN { f \div Unit }
     ELSE IF m = 0 THEN { b \div Unit }
     ELSE IF num % (255 * Unit) = 0 /\ q > 0 THEN { q, q - 1 }
     ELSE { q }

\* np.uint8(x) of a float: truncated toward zero; out of 0..255 the C cast
\* is undefined, and the builds wrap (modulo 256) or saturate
TruncZero(x) == IF x >= 0 THEN x \div Unit ELSE -((-x) \div Unit)
CastUint8(x, cast) ==
  LET t == TruncZero(x)
  IN IF t >= 0 /\ t <= 255 THEN t
     ELSE IF cast = "wrap" THEN t % 256
     ELSE IF t < 0 THEN 0 ELSE 255

\* add_guassian_noise (lines 50-59): the same gauss on the three buffers
add_guassian_noise(img, f, b, gauss, cast) ==
  [noisy_img |-> [x \in 1 .. Len(img) |-> CastUint8(img[x] * Unit + gauss[x], cast)],
   noisy_fg |-> [x \in 1 .. Len(img) |-> CastUint8(f[x] + gauss[x], cast)],
   noisy_bg |-> [x \in 1 .. Len(img) |-> CastUint8(b[x] + gauss[x], cast)]]

\* the rows of one value of each of the sets S[1], ..., S[n]
RECURSIVE RowProduct(_)
RowProduct(S) ==
  IF Len(S) = 0 THEN { <<>> }
  ELSE { Append(r, v) : r \in RowProduct(SubSeq(S, 1, Len(S) - 1)),
                        v \in S[Len(S)] }

FloatRow(row) == [x \in 1 .. Len(row) |-> row[x] * Unit]

BgFiles == UNION { Rows(PixelValues, n) : n \in 1 .. CompW }

\* the arguments of a call: fg and mask of one shape, the bg file of its
\* own, and whether denoised layers are passed (generate_composite_rssn)
InitComposite ==
  /\ pc = "c_resize"
  /\ comp \in [variant : {"rssn", "coco"}, has_denoise : BOOLEAN,
               mask : Rows(AlphaValues, CompW), fg : Rows(PixelValues, CompW),
               bg : BgFiles, composite : {None}, noisy : {FALSE}]
  /\ comp.has_denoise => comp.variant = "rssn"
  /\ err = NoError
  /\ cfg = None
  /\ ori = None /\ fg = None /\ bg = None
  /\ mask = None
  /\ trimap = None /\ dilation = None /\ erosion = None
  /\ kernel_size = None
  /\ crop_size = None /\ biased = None /\ target = None
  /\ cropx = None /\ cropy = None /\ flip_flag = None
  /\ argv_transform = None
  /\ tensors = None

compOther == <<err, cfg, shapeVars, mask, maskVars, cropVars, argv_transform,
               tensors>>

\* lines 63-66 and 83-86: bg resized to the shape of fg; fg a float from here
ResizeBg ==
  /\ pc = "c_resize"
  /\ comp' = [comp EXCEPT !.fg = FloatRow(comp.fg),
                          !.bg = resize_row(comp.bg, Len(comp.fg))]
  /\ pc' = IF comp.variant = "rssn" THEN "c_denoise" ELSE "c_blend"
  /\ UNCHANGED compOther

\* lines 68-70: the denoised layers taken, or not
DenoiseSwap ==
  /\ pc = "c_denoise"
  /\ \/ /\ comp.has_denoise
        /\ \E fd \in Rows(PixelValues, CompW), bd \in BgFiles :
             comp' = [comp EXCEPT !.fg = FloatRow(fd),
                                  !.bg = resize_row(bd, Len(fd))]
     \/ UNCHANGED comp
  /\ pc' = "c_blur"
  /\ UNCHANGED compOther

\* lines 72-74: the background blurred, or not
Blur ==
  /\ pc = "c_blur"
  /\ \/ \E k \in BlurKernels : comp' = [comp EXCEPT !.bg = cv2_blur(comp.bg, k)]
     \/ UNCHANGED comp
  /\ pc' = "c_blend"
  /\ UNCHANGED compOther

\* lines 75-76 and 87-88
BlendStep ==
  /\ pc = "c_blend"
  /\ \E c \in RowProduct([x \in 1 .. Len(comp.mask) |->
                            Blend(comp.mask[x], comp.fg[x], comp.bg[x])]) :
       comp' = [comp EXCEPT !.composite = c]
  /\ pc' = IF comp.variant = "rssn" THEN "c_noise" ELSE "c_return"
  /\ UNCHANGED compOther

\* lines 78-79: the noise added, or not
Noise ==
  /\ pc = "c_noise"
  /\ \/ \E gauss \in Rows(NoiseValues, CompW), cast \in {"wrap", "saturate"} :
          LET n == add_guassian_noise(comp.composite, comp.fg, comp.bg,
                                      gauss, cast)
          IN comp' = [comp EXCEPT !.composite = n.noisy_img,
                                  !.fg = FloatRow(n.noisy_fg),
                                  !.bg = FloatRow(n.noisy_bg),
                                  !.noisy = TRUE]
     \/ UNCHANGED comp
  /\ pc' = "c_return"
  /\ UNCHANGED compOther

NextComposite == ResizeBg \/ DenoiseSwap \/ Blur \/ BlendStep \/ Noise

SpecComposite == InitComposite /\ [][NextComposite]_vars

(***************************************************************************)
(* The properties.                                                         *)
(***************************************************************************)
AllPos(img) == Pos(img.h, img.w)

\* the erosion of the set of the pixels of img valued 255 by the
\* structuring element of size k: the pixels whose element, cut at the edge
\* of the image, lies in that set
InErodedForeground(img, k, p) ==
  \A e \in getStructuringElement(k).cells :
    InImage(img.h, img.w, Under(getStructuringElement(k), p, e))
      => img.px[Under(getStructuringElement(k), p, e)] = 255

\* C1: every pixel of the output of gen_trimap_with_dilate is 0, 128 or 255,
\* and every pixel valued 255 lies in the erosion of the input pixels that
\* are exactly 255 (so the input pixel there is 255)
C1_TrimapValues ==
  pc = "morphed" =>
    \A p \in AllPos(mask) :
      /\ trimap.px[p] \in {0, 128, 255}
      /\ trimap.px[p] = 255 =>
           /\ mask.px[p] = 255
           /\ InErodedForeground(mask, kernel_size, p)

\* a trimap with the three values, a pixel of the input valued 255 outside
\* the eroded foreground, and an element larger than one pixel
C1_Witness ==
  /\ pc = "morphed"
  /\ kernel_size > 1
  /\ \E p, q, r \in AllPos(mask) :
       /\ trimap.px[p] = 255
       /\ trimap.px[q] = 128 /\ mask.px[q] = 255
       /\ trimap.px[r] = 0

\* C10: the three masks built with one kernel size agree pixel by pixel: the
\* trimap is 255 exactly where gen_erosion is 255, 128 exactly where
\* gen_dilate is 255 and gen_erosion is 0, 0 exactly where gen_dilate is 0;
\* the erosion is never 255 where the dilation is 0
C10_MasksAgree ==
  pc = "morphed" =>
    \A p \in AllPos(mask) :
      /\ trimap.px[p] = 255 <=> erosion.px[p] = 255
      /\ trimap.px[p] = 128 <=> (dilation.px[p] = 255 /\ erosion.px[p] = 0)
      /\ trimap.px[p] = 0 <=> dilation.px[p] = 0
      /\ ~(erosion.px[p] = 255 /\ dilation.px[p] = 0)

\* the three kinds of pixel in one sample, the unknown band being wider than
\* the pixels of the mask that are neither 0 nor 255
C10_Witness ==
  /\ pc = "morphed"
  /\ kernel_size > 1
  /\ \E p, q, r \in AllPos(mask) :
       /\ erosion.px[p] = 255
       /\ dilation.px[q] = 255 /\ erosion.px[q] = 0 /\ mask.px[q] = 0
       /\ dilation.px[r] = 0

\* C2: the random crop never fails: the search finds a non-empty set of
\* candidate origins, one is picked, and __call__ returns without an error
C2_CropNeverFails ==
  /\ pc = "pick" => target # {}
  /\ err \notin {"ValueError:randint", "cv2.error:empty"}

\* C3: every buffer __call__ returns is RESIZE_SIZE x RESIZE_SIZE, and so are
\* the seven tensors __getitem__ returns
C3_OutputShape ==
  /\ pc \in {"tensor", "done"} =>
       \A i \in 1 .. 7 :
         /\ argv_transform[i].h = RESIZE_SIZE
         /\ argv_transform[i].w = RESIZE_SIZE
         /\ DOMAIN argv_transform[i].px = Pos(RESIZE_SIZE, RESIZE_SIZE)
  /\ pc = "done" =>
       \A i \in 1 .. 7 :
         tensors[i].h = RESIZE_SIZE /\ tensors[i].w = RESIZE_SIZE

\* a sample returned after a flipped crop of a size other than RESIZE_SIZE
\* from an image that is not square
C3_Witness ==
  /\ pc = "done"
  /\ flip_flag
  /\ crop_size # RESIZE_SIZE
  /\ ori.h # ori.w

\* C4: the buffers are cropped with one origin and one size and flipped
\* with one decision, so that every output position of every buffer derives
\* from the same source coordinates
C4_Aligned ==
  pc \in {"tensor", "done"} =>
    \A i \in 1 .. 7 : argv_transform[i].px = argv_transform[1].px

\* C6: when the mask has no pixel valued 128 in the searched region, the
\* origin is selected among all the pixels of the region, under either
\* branch, and no error is raised
C6_FallbackSearch ==
  (/\ pc \in {"pick", "crop"} \/ err = "ValueError:randint"
   /\ \A p \in TrimapCrop : mask.px[p] # 128)
    => /\ target = TrimapCrop
       /\ err = NoError
       /\ pc = "crop" => <<cropy, cropx>> \in TrimapCrop

\* C7: the buffers handed to the transform all have the height and width of
\* the mask
C7_SameShapes ==
  pc = "call" =>
    \A s \in {ori, fg, bg, ShapeOf(trimap), ShapeOf(dilation), ShapeOf(erosion)} :
      s = ShapeOf(mask)

\* C8: under the biased branch the origin is a pixel where the trimap
\* generated from the mask is 128, if the trimap has one in the searched
\* region; else any pixel of the region
C8_BiasedOrigin ==
  (pc = "crop" /\ biased) =>
    IF \E p \in TrimapCrop : trimap.px[p] = 128
    THEN trimap.px[<<cropy, cropx>>] = 128
    ELSE <<cropy, cropx>> \in TrimapCrop

\* C9: with a crop size smaller than the height and the width of the image,
\* 0 <= cropx <= w - crop_size - 1 and 0 <= cropy <= h - crop_size - 1, and
\* every cropped buffer is crop_size x crop_size
C9_CropInside ==
  (pc = "crop" /\ crop_size < Min(ori.h, ori.w)) =>
    /\ 0 <= cropx /\ cropx <= ori.w - crop_size - 1
    /\ 0 <= cropy /\ cropy <= ori.h - crop_size - 1
    /\ \A i \in 1 .. 7 :
         /\ Crop(Argv[i], cropy, cropx, crop_size).h = crop_size
         /\ Crop(Argv[i], cropy, cropx, crop_size).w = crop_size

\* the deviation allowed between the composite and a layer: the noise and
\* the truncation of the cast
Tolerance == (MaxNoise * Unit) \div 2 + Unit

Dist(a, b) == IF a >= b THEN a - b ELSE b - a

\* C5: with the mask 255 everywhere the composite returned is the
\* foreground returned, with the mask 0 everywhere the background returned,
\* at every pixel and up to the tolerance, for both variants
C5_CompositeOfLayer ==
  pc = "c_return" =>
    /\ (\A x \in 1 .. CompW : comp.mask[x] = 255) =>
         \A x \in 1 .. CompW :
           Dist(comp.composite[x] * Unit, comp.fg[x]) <= Tolerance
    /\ (\A x \in 1 .. CompW : comp.mask[x] = 0) =>
         \A x \in 1 .. CompW :
           Dist(comp.composite[x] * Unit, comp.bg[x]) <= Tolerance

====
